---- MODULE Spec2Model ----
(***************************************************************************)
(* flynt, src/flynt/api.py: the file-level driver of the f-string          *)
(* converter.  fstringify checks the input paths and builds the list of    *)
(* (directory, filename) pairs, fstringify_files walks the list and sums   *)
(* the per-file results, fstringify_file reads one file, converts its      *)
(* text, writes it back when it changed and optionally hands the file to   *)
(* pyupgrade.                                                              *)
(*                                                                         *)
(* A text is a sequence of source units (one expression or statement       *)
(* each); a directory name is a sequence of characters.  One step of the   *)
(* model is one statement (or one I/O operation) of the code.              *)
(***************************************************************************)
EXTENDS Integers, Sequences, FiniteSets, TLC

\* ------------------------------------------------------------------ bounds
\* longest files_or_paths list handed to fstringify
MaxPaths == 2
\* longest file, in source units
MaxLen == 2

\* ------------------------------------------------------------ directories
\* api.py:19  BLACKLIST = {".tox", "venv", "site-packages", ".eggs"}
BLACKLIST ==
    { <<".", "t", "o", "x">>,
      <<"v", "e", "n", "v">>,
      <<"s", "i", "t", "e", "-", "p", "a", "c", "k", "a", "g", "e", "s">>,
      <<".", "e", "g", "g", "s">> }

\* Python's `b in s` on strings: b is a contiguous substring of s
IsSubstring(b, s) ==
    \E k \in 0..(Len(s) - Len(b)) : SubSeq(s, k + 1, k + Len(b)) = b

IsPrefix(a, s) == Len(a) <= Len(s) /\ SubSeq(s, 1, Len(a)) = a

\* the directories of the file system the run sees; each holds one .py file
DirP     == <<"/", "p">>
DirPVenv == <<"/", "p", "/", "x", "v", "e", "n", "v">>
DirVen   == <<"/", "v", "e", "n">>
DirTox   == <<"/", ".", "t", "o", "x">>
DirSite  == <<"/", "s", "i", "t", "e", "-", "p", "a", "c", "k", "a", "g", "e", "s">>
DirEggs  == <<"/", "q", ".", "e", "g", "g", "s">>

\* in walk order
DirList == <<DirP, DirPVenv, DirVen, DirTox, DirSite, DirEggs>>
Dirs == {DirList[k] : k \in 1..Len(DirList)}

PyName == "m.py"

\* api.py:77  any(b in file[0] for b in BLACKLIST)
Blacklisted(file) == \E b \in BLACKLIST : IsSubstring(b, file[1])

\* astor.code_to_ast.find_py_files(abs_path): the (root, filename) pairs of the
\* .py files of the tree rooted at d, in walk order
RECURSIVE WalkFrom(_, _)
WalkFrom(d, k) ==
    IF k > Len(DirList) THEN <<>>
    ELSE (IF IsPrefix(d, DirList[k]) THEN << <<DirList[k], PyName>> >> ELSE <<>>)
         \o WalkFrom(d, k + 1)
find_py_files(d) == WalkFrom(d, 1)

\* ------------------------------------------------------------------ texts
\* units of source text:
\*   "pct"  a convertible percent format        "%s and %s" % (a, b)
\*   "fstr" its conversion                      f"{a} and {b}"
\*   "raw"  a percent format on a raw template  r"^(\s*%s\s*=\s*')(.+?)(')" % pattern
\*   "code" any other statement                 x = 1
\*   "bad"  text that does not parse            def (
\*   "up"   a statement as pyupgrade rewrites it
InUnits == {"pct", "raw", "code", "bad"}

CharLen(u) ==
    CASE u = "pct"  -> 21
      [] u = "fstr" -> 14
      [] u = "raw"  -> 37
      [] u = "code" -> 6
      [] u = "bad"  -> 5
      [] u = "up"   -> 4

\* len(text)
RECURSIVE len(_)
len(t) == IF t = <<>> THEN 0 ELSE CharLen(Head(t)) + len(Tail(t))

RECURSIVE SeqsUpTo(_, _)
SeqsUpTo(S, n) ==
    IF n = 0 THEN {<<>>}
    ELSE LET shorter == SeqsUpTo(S, n - 1)
         IN  shorter \cup {Append(s, x) : s \in {q \in shorter : Len(q) = n - 1}, x \in S}

Texts == SeqsUpTo(InUnits, MaxLen)

\* a file open() or read() fails on (missing, unreadable, not UTF-8)
Unreadable == <<"bin">>

\* --------------------------------------------------------------- converter
\* flynt.process.fstringify_code_by_line(contents, multiline=False, len_limit)
\* the conversion of one unit
ConvertAlsoRaw(u) == IF u \in {"pct", "raw"} THEN "fstr" ELSE u
ConvertUnit(u) == IF u = "pct" THEN "fstr" ELSE u

ParseError(t) == \E k \in 1..Len(t) : t[k] = "bad"

fstringify_code_by_line(t) ==
    LET new == [k \in 1..Len(t) |-> ConvertUnit(t[k])]
    IN  <<new, Cardinality({k \in 1..Len(t) : new[k] # t[k]})>>

\* ------------------------------------------------------------------- state
VARIABLES
    pc,                        \* the statement the run is at
    pyup,                      \* the pyup argument of the run
    files_or_paths,            \* entries the loop of fstringify has yet to visit
    files,                     \* pairs collected, then those fstringify_files has yet to visit
    exit_status,               \* -1 while running, else the status the process ends with
    file,                      \* loop variable of fstringify_files
    changed_files,
    total_charcount_original,
    total_charcount_new,
    total_expressions,
    disk,                      \* the content on disk of the file fstringify_file is at
    contents,                  \* local of fstringify_file
    contentsBound,             \* whether the name `contents` is bound
    new_code,
    changes,
    newBound,                  \* whether new_code, changes are bound
    result,
    handleOpen,                \* the write handle of line 46 is open
    \* history variables, read by the properties only
    orig,                      \* disk content when fstringify_file was called
    reads,                     \* open-for-read operations of the current call
    writes,                    \* open-for-write operations of the current call
    pyupCalls,                 \* pyupgrade.fix_file invocations of the current call
    pyupActive,                \* pyupgrade.fix_file is running
    coreWrote,                 \* the core pass replaced the file's content
    pyupWrote,                 \* pyupgrade replaced the file's content
    failure,                   \* what failed in the current call
    calls,                     \* fstringify_file calls made so far
    missingHit,                \* the loop of fstringify met an entry that does not exist
    nChanged, sumChanges, sumOriginal, sumNew   \* sums over the results returned so far

vars == <<pc, pyup, files_or_paths, files, exit_status, file, changed_files,
          total_charcount_original, total_charcount_new, total_expressions,
          disk, contents, contentsBound, new_code, changes, newBound, result,
          handleOpen, orig, reads, writes, pyupCalls, pyupActive, coreWrote,
          pyupWrote, failure, calls, missingHit,
          nChanged, sumChanges, sumOriginal, sumNew>>

totals == <<changed_files, total_charcount_original, total_charcount_new,
            total_expressions>>
sums == <<nChanged, sumChanges, sumOriginal, sumNew>>
locals == <<contents, contentsBound, new_code, changes, newBound, result>>
ghosts == <<orig, reads, writes, pyupCalls, pyupActive, coreWrote, pyupWrote, failure>>
outer == <<pyup, files_or_paths, files, exit_status, file, calls, missingHit>>

NoResult == <<FALSE, 0, 0, 0>>
NoFile == <<<<>>, "">>

\* an entry of files_or_paths: what is at the path, and the directory it names
\* (for a file: the directory it lies in)
PathEntries ==
    {<<"missing", DirP>>} \cup {<<k, d>> : k \in {"file", "dir"}, d \in Dirs}

Init ==
    /\ pc = "paths"
    /\ pyup \in BOOLEAN
    /\ files_or_paths \in SeqsUpTo(PathEntries, MaxPaths)
    /\ files = <<>>
    /\ exit_status = -1
    /\ file = NoFile
    /\ changed_files = 0 /\ total_charcount_original = 0
    /\ total_charcount_new = 0 /\ total_expressions = 0
    /\ disk = <<>> /\ orig = <<>>
    /\ contents = <<>> /\ contentsBound = FALSE
    /\ new_code = <<>> /\ changes = 0 /\ newBound = FALSE
    /\ result = NoResult
    /\ handleOpen = FALSE
    /\ reads = 0 /\ writes = 0 /\ pyupCalls = 0 /\ pyupActive = FALSE
    /\ coreWrote = FALSE /\ pyupWrote = FALSE /\ failure = "none"
    /\ calls = 0 /\ missingHit = FALSE
    /\ nChanged = 0 /\ sumChanges = 0 /\ sumOriginal = 0 /\ sumNew = 0

\* ---------------------------------------------------------------- fstringify
\* api.py:139  os.path.exists(abs_path)
ExistsAlways(p) == TRUE
exists(p) == p[1] # "missing"

\* api.py:143  os.path.isdir(abs_path)
isdir(p) == p[1] = "dir"

\* api.py:139-141  an entry that does not exist: print, sys.exit(1)
PathMissing ==
    /\ pc = "paths" /\ files_or_paths # <<>>
    /\ ~exists(Head(files_or_paths))
    /\ pc' = "exited"
    /\ exit_status' = 1
    /\ missingHit' = TRUE
    /\ UNCHANGED <<file, pyup, files_or_paths, files, calls, totals, sums, disk, locals,
                   handleOpen, ghosts>>

\* api.py:143-144  a directory: files.extend(find_py_files(abs_path))
PathDir ==
    /\ pc = "paths" /\ files_or_paths # <<>>
    /\ exists(Head(files_or_paths)) /\ isdir(Head(files_or_paths))
    /\ files' = files \o find_py_files(Head(files_or_paths)[2])
    /\ files_or_paths' = Tail(files_or_paths)
    /\ missingHit' = (missingHit \/ Head(files_or_paths)[1] = "missing")
    /\ UNCHANGED <<file, pc, pyup, exit_status, calls, totals, sums, disk, locals,
                   handleOpen, ghosts>>

\* api.py:145-146  a file: files.append((dirname, basename))
PathFile ==
    /\ pc = "paths" /\ files_or_paths # <<>>
    /\ exists(Head(files_or_paths)) /\ ~isdir(Head(files_or_paths))
    /\ files' = Append(files, <<Head(files_or_paths)[2], PyName>>)
    /\ files_or_paths' = Tail(files_or_paths)
    /\ missingHit' = (missingHit \/ Head(files_or_paths)[1] = "missing")
    /\ UNCHANGED <<file, pc, pyup, exit_status, calls, totals, sums, disk, locals,
                   handleOpen, ghosts>>

\* api.py:148, 71-75  every entry exists: call fstringify_files, counters at 0
CallFiles ==
    /\ pc = "paths" /\ files_or_paths = <<>>
    /\ pc' = "loop"
    /\ changed_files' = 0 /\ total_charcount_original' = 0
    /\ total_charcount_new' = 0 /\ total_expressions' = 0
    /\ UNCHANGED <<outer, sums, disk, locals, handleOpen, ghosts>>

\* ----------------------------------------------------------- fstringify_files
\* api.py:76-78  a blacklisted pair: continue
LoopSkip ==
    /\ pc = "loop" /\ files # <<>>
    /\ Blacklisted(Head(files))
    /\ file' = Head(files)
    /\ files' = Tail(files)
    /\ UNCHANGED <<pc, pyup, files_or_paths, exit_status, calls, missingHit, totals,
                   sums, disk, locals, handleOpen, ghosts>>

\* api.py:79-82  any other pair: call fstringify_file on it.  The file's
\* content is whatever the file system holds at that moment.
LoopCall ==
    /\ pc = "loop" /\ files # <<>>
    /\ ~Blacklisted(Head(files))
    /\ file' = Head(files)
    /\ files' = Tail(files)
    /\ calls' = calls + 1
    /\ \E t \in Texts \cup {Unreadable} : disk' = t /\ orig' = t
    /\ pc' = "read"
    /\ contents' = <<>> /\ contentsBound' = FALSE
    /\ new_code' = <<>> /\ changes' = 0 /\ newBound' = FALSE
    /\ result' = NoResult
    /\ reads' = 0 /\ writes' = 0 /\ pyupCalls' = 0
    /\ coreWrote' = FALSE /\ pyupWrote' = FALSE /\ failure' = "none"
    /\ UNCHANGED <<pyup, files_or_paths, exit_status, missingHit, totals, sums,
                   handleOpen, pyupActive>>

\* api.py:92-104, 148-159  the list is done: report, return changed_files;
\* fstringify returns it when fail_on_changes, else 0
LoopEnd ==
    /\ pc = "loop" /\ files = <<>>
    /\ pc' = "done"
    /\ \E fail_on_changes \in BOOLEAN :
           exit_status' = IF fail_on_changes THEN changed_files ELSE 0
    /\ UNCHANGED <<file, pyup, files_or_paths, files, calls, missingHit, totals, sums,
                   disk, locals, handleOpen, ghosts>>

\* ------------------------------------------------------------ fstringify_file
\* api.py:31-32  open(filename, encoding="utf-8"), file.read(): one read
ReadOk ==
    /\ pc = "read" /\ disk # Unreadable
    /\ reads' = reads + 1
    /\ contents' = disk /\ contentsBound' = TRUE
    /\ pc' = "convert"
    /\ UNCHANGED <<outer, totals, sums, disk, new_code, changes, newBound, result,
                   handleOpen, orig, writes, pyupCalls, pyupActive, coreWrote,
                   pyupWrote, failure>>

\* api.py:31-32, 38  open or read raises: `contents` stays unbound
ReadFail ==
    /\ pc = "read" /\ disk = Unreadable
    /\ reads' = reads + 1
    /\ failure' = "read"
    /\ pc' = "except"
    /\ UNCHANGED <<outer, totals, sums, disk, locals, handleOpen, orig, writes,
                   pyupCalls, pyupActive, coreWrote, pyupWrote>>

\* api.py:34-36  new_code, changes = fstringify_code_by_line(contents, ...)
ConvertOk ==
    /\ pc = "convert" /\ ~ParseError(contents)
    /\ new_code' = fstringify_code_by_line(contents)[1]
    /\ changes' = fstringify_code_by_line(contents)[2]
    /\ newBound' = TRUE
    /\ pc' = "else"
    /\ UNCHANGED <<outer, totals, sums, disk, contents, contentsBound, result,
                   handleOpen, ghosts>>

\* api.py:34-38  the conversion raises
ConvertFail ==
    /\ pc = "convert" /\ ParseError(contents)
    /\ failure' = "convert"
    /\ pc' = "except"
    /\ UNCHANGED <<outer, totals, sums, disk, locals, handleOpen, orig, reads,
                   writes, pyupCalls, pyupActive, coreWrote, pyupWrote>>

\* api.py:39-41  the handler: result = False, 0, len(contents), len(contents)
ExceptResult ==
    /\ pc = "except" /\ contentsBound
    /\ result' = <<FALSE, 0, len(contents), len(contents)>>
    /\ pc' = "pyupcheck"
    /\ UNCHANGED <<outer, totals, sums, disk, contents, contentsBound, new_code,
                   changes, newBound, handleOpen, ghosts>>

\* api.py:41  len(contents) with `contents` unbound: UnboundLocalError, raised
\* inside the handler, so nothing catches it
ExceptUnbound ==
    /\ pc = "except" /\ ~contentsBound
    /\ pc' = "crashed"
    /\ UNCHANGED <<outer, totals, sums, disk, locals, handleOpen, ghosts>>

\* api.py:43  new_code == contents
NeverUnchanged(new, old) == FALSE
Unchanged(new, old) == new = old

\* api.py:43-44  nothing changed: no write
ElseSame ==
    /\ pc = "else" /\ Unchanged(new_code, contents)
    /\ result' = <<FALSE, 0, len(contents), len(contents)>>
    /\ pc' = "pyupcheck"
    /\ UNCHANGED <<outer, totals, sums, disk, contents, contentsBound, new_code,
                   changes, newBound, handleOpen, ghosts>>

\* api.py:46  open(filename, "w"): the file is truncated
WriteOpen ==
    /\ pc = "else" /\ ~Unchanged(new_code, contents)
    /\ writes' = writes + 1
    /\ disk' = <<>>
    /\ handleOpen' = TRUE
    /\ pc' = "write"
    /\ UNCHANGED <<outer, totals, sums, locals, orig, reads, pyupCalls, pyupActive,
                   coreWrote, pyupWrote, failure>>

\* api.py:46  open(filename, "w") raises (read-only file): outside the try
WriteOpenFail ==
    /\ pc = "else" /\ ~Unchanged(new_code, contents)
    /\ writes' = writes + 1
    /\ failure' = "write"
    /\ pc' = "crashed"
    /\ UNCHANGED <<outer, totals, sums, disk, locals, handleOpen, orig, reads,
                   pyupCalls, pyupActive, coreWrote, pyupWrote>>

\* api.py:46-47  whether leaving the with block closes the handle
HandleLeaks == TRUE
HandleAfterWith == FALSE

\* api.py:49  result = True, changes, len(contents), len(new_code)
WriteResult(ch, old, new) == <<TRUE, ch, len(old), len(new)>>

\* api.py:47-49  file.write(new_code), the with block closes the handle
WriteOk ==
    /\ pc = "write"
    /\ disk' = new_code
    /\ handleOpen' = HandleAfterWith
    /\ coreWrote' = TRUE
    /\ result' = WriteResult(changes, contents, new_code)
    /\ pc' = "pyupcheck"
    /\ UNCHANGED <<outer, totals, sums, contents, contentsBound, new_code, changes,
                   newBound, orig, reads, writes, pyupCalls, pyupActive, pyupWrote,
                   failure>>

\* api.py:47  the write raises (disk full): some of new_code is on disk, the
\* with block closes the handle and the exception leaves fstringify_file
WriteFail ==
    /\ pc = "write"
    /\ \E k \in 0..(Len(new_code) - 1) : disk' = SubSeq(new_code, 1, k)
    /\ handleOpen' = HandleAfterWith
    /\ failure' = "write"
    /\ pc' = "crashed"
    /\ UNCHANGED <<outer, totals, sums, locals, orig, reads, writes, pyupCalls,
                   pyupActive, coreWrote, pyupWrote>>

\* api.py:51-52  if not pyup: return result
ReturnCore ==
    /\ pc = "pyupcheck" /\ ~pyup
    /\ pc' = "ret"
    /\ UNCHANGED <<outer, totals, sums, disk, locals, handleOpen, ghosts>>

\* api.py:54-62  pyupgrade.fix_file(filename, args) is called
PyupInvoke ==
    /\ pc = "pyupcheck" /\ pyup
    /\ pyupCalls' = pyupCalls + 1
    /\ pyupActive' = TRUE
    /\ pc' = "pyuprun"
    /\ UNCHANGED <<outer, totals, sums, disk, locals, handleOpen, orig, reads,
                   writes, coreWrote, pyupWrote, failure>>

\* flynt.file_spy.charcount_stats(filename): the character counts of the file
\* before and after the write the spy saw
charcount_stats(before, after) == <<len(before), len(after)>>

\* api.py:66  return True, result[1], result[2], len_after
PyupKeepsLength(res, len_after) == <<TRUE, res[2], res[3], res[4]>>
PyupResult(res, len_after) == <<TRUE, res[2], res[3], len_after>>

\* api.py:62, 67  fix_file found nothing to upgrade: return result
PyupSame ==
    /\ pc = "pyuprun"
    /\ pyupActive' = FALSE
    /\ pc' = "ret"
    /\ UNCHANGED <<outer, totals, sums, disk, locals, handleOpen, orig, reads,
                   writes, pyupCalls, coreWrote, pyupWrote, failure>>

\* api.py:62-66  fix_file rewrote the file: one statement of it is upgraded
PyupChanged ==
    /\ pc = "pyuprun"
    /\ \E k \in 1..Len(disk) :
          /\ disk[k] # "up"
          /\ disk' = [disk EXCEPT ![k] = "up"]
    /\ pyupWrote' = TRUE
    /\ pyupActive' = FALSE
    /\ result' = PyupResult(result, charcount_stats(disk, disk')[2])
    /\ pc' = "ret"
    /\ UNCHANGED <<outer, totals, sums, contents, contentsBound, new_code, changes,
                   newBound, handleOpen, orig, reads, writes, pyupCalls, coreWrote,
                   failure>>

\* api.py:83-85  total_expressions grows inside `if changed`
AddAlways(total, changed, count) == total + 1
AddExpressions(total, changed, count) == IF changed THEN total + count ELSE total

\* api.py:80-87  back in fstringify_files: add the file's result to the totals
Accumulate ==
    /\ pc = "ret"
    /\ changed_files' = IF result[1] THEN changed_files + 1 ELSE changed_files
    /\ total_expressions' = AddExpressions(total_expressions, result[1], result[2])
    /\ total_charcount_original' = total_charcount_original + result[3]
    /\ total_charcount_new' = total_charcount_new + result[4]
    /\ nChanged' = nChanged + (IF result[1] THEN 1 ELSE 0)
    /\ sumChanges' = sumChanges + result[2]
    /\ sumOriginal' = sumOriginal + result[3]
    /\ sumNew' = sumNew + result[4]
    /\ pc' = "loop"
    \* the locals of fstringify_file are gone
    /\ disk' = <<>> /\ orig' = <<>>
    /\ contents' = <<>> /\ contentsBound' = FALSE
    /\ new_code' = <<>> /\ changes' = 0 /\ newBound' = FALSE
    /\ result' = NoResult
    /\ reads' = 0 /\ writes' = 0 /\ pyupCalls' = 0
    /\ coreWrote' = FALSE /\ pyupWrote' = FALSE /\ failure' = "none"
    /\ UNCHANGED <<outer, handleOpen, pyupActive>>

Next ==
    \/ PathMissing \/ PathDir \/ PathFile \/ CallFiles
    \/ LoopSkip \/ LoopCall \/ LoopEnd
    \/ ReadOk \/ ReadFail \/ ConvertOk \/ ConvertFail
    \/ ExceptResult \/ ExceptUnbound
    \/ ElseSame \/ WriteOpen \/ WriteOpenFail \/ WriteOk \/ WriteFail
    \/ ReturnCore \/ PyupInvoke \/ PyupSame \/ PyupChanged
    \/ Accumulate

Spec == Init /\ [][Next]_vars

\* ------------------------------------------------------------------ claims
InCall == {"read", "convert", "except", "else", "write", "pyupcheck", "pyuprun",
           "ret", "crashed"}
CorePcs == {"read", "convert", "except", "else", "write"}
CallEnded == pc \in {"ret", "crashed"}

\* C1: a failure while one file is processed (it cannot be read, its conversion
\* raises, it cannot be written) never aborts the run: the exception does not
\* leave fstringify_file and the loop goes on to the files after it.
C1_FailureNeverAborts == failure # "none" => pc # "crashed"

\* C2: when reading or converting a file fails, the call of fstringify_file
\* returns (False, 0, original length, original length) and the file on disk is
\* what it was, with pyup disabled and enabled.
C2_FailureIsZeroChange ==
    (CallEnded /\ failure \in {"read", "convert"}) =>
        /\ pc = "ret"
        /\ disk = orig
        /\ result = <<FALSE, 0, len(orig), len(orig)>>

\* C3: when the core pass of fstringify_file has ended, normally or by an error
\* (a failed write included), the file on disk holds the whole original text or
\* the whole converted text, never an empty or partial one.
C3_WholeOrUntouched ==
    (CallEnded /\ ~pyupWrote) =>
        \/ disk = orig
        \/ newBound /\ disk = new_code

\* C4: with pyup disabled one call of fstringify_file opens the file once for
\* reading and at most once for writing, opens it for writing if and only if the
\* converted text differs from the text read, and whenever it reports no change
\* the file on disk is what it was and the two lengths returned are equal.
C4_NoOpAtFileLevel ==
    ~pyup =>
        /\ reads <= 1 /\ writes <= 1
        /\ CallEnded =>
              /\ reads = 1
              /\ writes = 1 <=> (newBound /\ new_code # contents)
        /\ (pc = "ret" /\ (~result[1] \/ result[2] = 0)) =>
              /\ disk = orig
              /\ result[3] = result[4]

C4_Witness ==
    /\ pc = "ret" /\ ~pyup /\ newBound
    /\ ~result[1] /\ reads = 1 /\ writes = 0
    /\ Len(orig) = MaxLen /\ disk = orig

\* C5: pyupgrade.fix_file runs at most once per call of fstringify_file, only
\* with pyup enabled, only once the core has read, converted and (if the text
\* changed) written the file and closed its write handle, and it is over before
\* the core starts on the next file.
C5_UpgraderAfterCore ==
    /\ pyupCalls <= 1
    /\ ~pyup => pyupCalls = 0
    /\ pyupActive =>
          /\ pyup /\ pc = "pyuprun" /\ pyupCalls = 1
          /\ ~handleOpen
          /\ reads = 1 /\ contentsBound
          /\ (newBound /\ new_code # contents) => (coreWrote /\ disk = new_code)
    /\ pc \in CorePcs => (~pyupActive /\ pyupCalls = 0)

C5_Witness == pc = "pyuprun" /\ pyupActive /\ coreWrote /\ calls = 2

\* C6: when an entry of files_or_paths does not exist the process exits with
\* status 1, and no file has been read, converted or written by then, whatever
\* valid entries come before the missing one.
HasMissing ==
    \/ missingHit
    \/ \E k \in 1..Len(files_or_paths) : files_or_paths[k][1] = "missing"

C6_BadPathIsHardStop ==
    /\ HasMissing =>
          /\ pc \in {"paths", "exited"}
          /\ calls = 0 /\ reads = 0 /\ writes = 0 /\ ~newBound /\ ~contentsBound
    /\ missingHit => (pc = "exited" /\ exit_status = 1)
    /\ (pc = "paths" /\ HasMissing) => files_or_paths # <<>>
    /\ pc = "exited" => exit_status = 1

C6_Witness == pc = "exited" /\ exit_status = 1 /\ files # <<>>

\* C7: the counters of fstringify_files are the sums of the results returned by
\* fstringify_file so far: changed_files the number of results with changed,
\* total_expressions the sum of their n_changes, and the two character totals
\* the sums of their original and new lengths.
C7_TotalsAreSums ==
    /\ changed_files = nChanged
    /\ total_expressions = sumChanges
    /\ total_charcount_original = sumOriginal
    /\ total_charcount_new = sumNew

C7_Witness ==
    /\ pc = "loop" /\ calls = 2
    /\ changed_files = 1 /\ total_expressions > 0
    /\ total_charcount_new < total_charcount_original

\* C8: when fstringify_file returns, changed is true exactly when the core pass
\* or pyupgrade rewrote the file, the expression count and the original length
\* are those of the core pass, and the new length is the length of the file on
\* disk.
C8_CountersDescribeFile ==
    pc = "ret" =>
        /\ result[1] <=> (coreWrote \/ pyupWrote)
        /\ result[1] <=> disk # orig
        /\ result[2] = (IF coreWrote THEN changes ELSE 0)
        /\ result[3] = len(orig)
        /\ result[4] = len(disk)

C8_Witness == pc = "ret" /\ coreWrote /\ pyupWrote /\ result[2] > 0

\* C9: a pair whose directory contains a BLACKLIST name is never handed to
\* fstringify_file, and every other pair of the list is handed to it, once, in
\* list order: when the run has ended none of them is left.
C9_OthersAllProcessed ==
    /\ pc \in InCall => ~Blacklisted(file)
    /\ pc \in {"done", "crashed"} =>
          \A k \in 1..Len(files) : Blacklisted(files[k])

\* C10: in single-line mode a percent format on a raw template is left as it
\* is: the converted text has it where the text read has it, and it adds nothing
\* to the count of changes.
NotRaw(u) == u # "raw"

====
